---- MODULE Spec2Model ----
(***************************************************************************)
(* A model of accessibility_visualiser.py: the Element snapshot, the       *)
(* same_element comparison, the fast and the slow ancestor searches, the   *)
(* lock-guarded shared result (elements_list, mouse_pos,                   *)
(* is_searching_tree), the draw callback, the gather_at_point action, the   *)
(* copy action built on it and the close action.                           *)
(*                                                                         *)
(* Accessibility handles are node numbers of a forest.  A property read    *)
(* on a handle either yields a positive number or raises OSError, which   *)
(* is written ERR.  None is Python's None.                                 *)
(***************************************************************************)
EXTENDS Integers, Sequences, FiniteSets, TLC

\* ------------------------------------------------------------------ bounds
MaxNodes == 3
MaxWindows == 2
MaxInvocations == 2
MaxScreens == 1

Nodes == 1..MaxNodes
None == 0
ERR == -1

\* the calls of visualiser_gather_at_point, which may overlap
Invocations == 1..MaxInvocations
\* ui.screens()
Screens == 1..MaxScreens
\* the pointer positions; the element under point p is node p, none under 0
Points == 0..MaxNodes
\* holders of elements_list_lock: an invocation, the draw callback, or nobody
Renderer == -2
Free == 0

BrowserNames == {"firefox", "edge", "google chrome", "safari", "brave"}

VARIABLES
    \* the platform: what the host's accessibility API answers
    parentOf,           \* node -> its parent node, None for a root
    attr,               \* node -> the six properties same_element reads
    broken,             \* nodes whose .children and .parent reads raise OSError
    winList,            \* ui.windows(): the top-level windows, in enumeration order
    hasParent,          \* hasattr(ui.Element, "parent")
    \* one run of find_ancestors_slow, statement by statement
    sTarget,            \* its argument `element`
    sPc,                \* "idle", "loop", "returned" or "raised"
    queue,              \* the LifoQueue of (current, ancestors) pairs
    expanded,           \* the nodes popped so far, in order
    sOutcome,           \* "none", "chain", "notfound" or "oserror"
    sChain,             \* the list returned
    \* one call of Element(...) or of find_ancestors_fast(...)
    fPc,                \* "idle", or the function called: "Element", "fast"
    fArg,               \* the handle passed
    fRes,               \* what the call gave
    \* the module's globals
    elements_list,      \* a reference: [items, iter, by]
    mouse_pos,
    is_searching_tree,
    elements_list_lock, \* who holds it
    canvases,           \* the list of canvases: [screen, registered]
    tags,               \* visualiser_active_context.tags is non-empty
    redraw_due,         \* a canvas was resumed and has not been drawn since
    iterPos,            \* invocation -> items already taken from its reversed() iterator
    \* the calls of visualiser_gather_at_point
    pc,                 \* invocation -> where it is
    mouse_pos_,         \* invocation -> its local mouse_pos_
    base_element,       \* invocation -> its local base_element
    elements,           \* invocation -> its local `elements`
    resolution,         \* invocation -> how its search ended
    raised,             \* invocation -> the exception that left the call
    events,             \* invocation -> what it has done so far, in order
    screen_ix,          \* invocation -> the screen its create_canvases loop is at
    \* the draw callback
    dPc,
    d_elements_list,    \* its local elements_list_
    d_mouse_pos,        \* its local mouse_pos_
    d_is_searching,     \* its local is_searching_tree_
    d_colour,           \* the flag its colour choice read: "unset", "searching", "idle"
    d_text,             \* the number of text components laid out
    dRaised,            \* the exception that left the callback
    \* visualiser_close, and the clipboard
    closePc,            \* "idle", "loop" or "clear"
    close_ix,           \* the index its `for c in canvases` is at
    unlisted,           \* canvases dropped from the list while still open
    clipboard           \* what clip.set_text was last given, and by whom

world == <<parentOf, attr, broken, winList, hasParent>>
slowVars == <<sTarget, sPc, queue, expanded, sOutcome, sChain>>
fnVars == <<fPc, fArg, fRes>>
shared == <<elements_list, mouse_pos, is_searching_tree>>
overlay == <<canvases, tags, redraw_due>>
gatherVars ==
    <<pc, mouse_pos_, base_element, elements, resolution, raised, events, screen_ix>>
drawVars == <<dPc, d_elements_list, d_mouse_pos, d_is_searching, d_colour, d_text, dRaised>>
hostVars == <<closePc, close_ix, unlisted, clipboard>>
appVars ==
    <<shared, elements_list_lock, overlay, iterPos, gatherVars, drawVars, hostVars>>

\* ------------------------------------------------------------ the platform
\* element.children: the direct children, in the platform's order
RECURSIVE ChildrenFrom(_, _)
ChildrenFrom(n, k) ==
    IF k > MaxNodes THEN <<>>
    ELSE (IF parentOf[k] = n THEN <<k>> ELSE <<>>) \o ChildrenFrom(n, k + 1)

Children(n) == ChildrenFrom(n, 1)

RECURSIVE Subtree(_)
Subtree(n) == {n} \cup UNION {Subtree(c) : c \in {k \in Nodes : parentOf[k] = n}}

RECURSIVE Depth(_)
Depth(n) == IF parentOf[n] = None THEN 0 ELSE 1 + Depth(parentOf[n])

\* ------------------------------------------------------------------ Element
NoText == [fmt |-> "none", a |-> 0, b |-> 0]
NoEntry == [kind |-> "none", node |-> None, rect |-> 0, text |-> NoText]

\* a live ui.Element handle stored where a snapshot is expected
Live(e) == [kind |-> "live", node |-> e, rect |-> 0, text |-> NoText]

\* Element.__init__: [ok |-> FALSE] when the constructor raises OSError
Element(e) ==
    IF attr[e].rect = ERR
    THEN [ok |-> FALSE, val |-> NoEntry]
    ELSE [ok |-> TRUE,
          val |-> [kind |-> "snap", node |-> e, rect |-> attr[e].rect,
                   text |-> IF attr[e].name = ERR \/ attr[e].class_name = ERR
                            THEN [fmt |-> "str", a |-> e, b |-> 0]
                            ELSE [fmt |-> "name_class", a |-> attr[e].name,
                                  b |-> attr[e].class_name]]]

\* [Element(e) for e in path]: raises as soon as one constructor raises
RECURSIVE Snapshots(_)
Snapshots(path) ==
    IF path = <<>> THEN [ok |-> TRUE, val |-> <<>>]
    ELSE LET h == Element(Head(path))
             t == Snapshots(Tail(path))
         IN IF h.ok /\ t.ok
            THEN [ok |-> TRUE, val |-> <<h.val>> \o t.val]
            ELSE [ok |-> FALSE, val |-> <<>>]

\* ------------------------------------------------------------- same_element
\* a guarded window_handle read: OSError becomes None
GuardedHandle(e) == IF attr[e].window_handle = ERR THEN None ELSE attr[e].window_handle

\* two unreadable values taken as equal
FieldCmpUnreadableEqual(x, y) == IF x = y THEN "eq" ELSE "ne"

\* one `a.f == b.f` operand of the guarded conjunction: "raise", "eq" or "ne"
FieldCmp(x, y) == IF x = ERR \/ y = ERR THEN "raise" ELSE IF x = y THEN "eq" ELSE "ne"

FieldOrder == <<"name", "class_name", "rect", "patterns", "automation_id">>

\* the `and` chain from field i on; a raise inside the try gives False
RECURSIVE AndChain(_, _, _)
AndChain(a, b, i) ==
    IF i > Len(FieldOrder) THEN TRUE
    ELSE LET c == FieldCmp(attr[a][FieldOrder[i]], attr[b][FieldOrder[i]])
         IN IF c = "eq" THEN AndChain(a, b, i + 1) ELSE FALSE

same_element(a, b) ==
    LET handles_match == GuardedHandle(a) = GuardedHandle(b)
    IN IF handles_match THEN AndChain(a, b, 1) ELSE FALSE

\* ------------------------------------------------------ find_ancestors_slow
Visible(w) == ~(w.hidden \/ w.minimized)

RECURSIVE Repeat(_, _)
Repeat(x, k) == IF k = 0 THEN <<>> ELSE <<x>> \o Repeat(x, k - 1)

\* the loop over ui.windows(): the inner `continue` only skips to the next
\* browser name, so every visible window is appended to `windows`, and is also
\* appended to `browser_windows` once per browser name its app name contains
RECURSIVE ScanWindows(_)
ScanWindows(ws) ==
    IF ws = <<>>
    THEN [raised |-> FALSE, windows |-> <<>>, browser_windows |-> <<>>]
    ELSE LET w == Head(ws)
             rest == ScanWindows(Tail(ws))
         IN IF ~Visible(w) THEN rest
            ELSE IF ~w.appOK
            THEN [raised |-> TRUE, windows |-> <<>>, browser_windows |-> <<>>]
            ELSE [raised |-> rest.raised,
                  windows |-> <<w>> \o rest.windows,
                  browser_windows |->
                      Repeat(w, Cardinality({b \in BrowserNames : b \in w.app}))
                          \o rest.browser_windows]

\* windows.extend(browser_windows)
OrderedWindows(scan) == scan.windows \o scan.browser_windows

\* a root is put on the queue only when its window handle is that of the target
SeedOnlyOnMatch(w, element_window_handle) ==
    /\ w.elementOK
    /\ attr[w.root].window_handle = element_window_handle

\* the body of `for window in reversed(windows)`: is the root put on the queue?
SeedIncluded(w, element_window_handle) ==
    /\ w.elementOK
    /\ \/ element_window_handle = None
       \/ attr[w.root].window_handle = ERR
       \/ attr[w.root].window_handle = element_window_handle

\* the queue after the seeding loop; put appends, get takes the last item
RECURSIVE SeedQueue(_, _)
SeedQueue(ws, element_window_handle) ==
    IF ws = <<>> THEN <<>>
    ELSE LET w == ws[Len(ws)]
         IN (IF SeedIncluded(w, element_window_handle)
             THEN << <<w.root, <<>>>> >> ELSE <<>>)
            \o SeedQueue(SubSeq(ws, 1, Len(ws) - 1), element_window_handle)

\* what is pushed for a child: [*ancestors, current, child]
PushedAncestors(ancestors, current, child) == ancestors \o <<current, child>>

RECURSIVE PushChildren(_, _, _)
PushChildren(children, ancestors, current) ==
    IF children = <<>> THEN <<>>
    ELSE << <<Head(children), PushedAncestors(ancestors, current, Head(children))>> >>
         \o PushChildren(Tail(children), ancestors, current)

\* raise ElementNotFoundError(...), once the queue is empty
ExhaustedOutcome == "notfound"

SlowIdle ==
    [pc |-> "idle", queue |-> <<>>, expanded |-> <<>>, outcome |-> "none",
     chain |-> <<>>]

\* lines 216-255: the state on reaching the while loop
SlowBegin(element) ==
    LET scan == ScanWindows(winList)
    IN IF scan.raised
       THEN [SlowIdle EXCEPT !.pc = "raised", !.outcome = "oserror"]
       ELSE [SlowIdle EXCEPT !.pc = "loop",
                             !.queue = SeedQueue(OrderedWindows(scan),
                                                 GuardedHandle(element))]

\* lines 257-269: one test of the while condition and the iteration it starts
SlowStep(element, st) ==
    IF st.queue = <<>>
    THEN [st EXCEPT !.pc = "raised", !.outcome = ExhaustedOutcome]
    ELSE LET item == st.queue[Len(st.queue)]
             rest == SubSeq(st.queue, 1, Len(st.queue) - 1)
             current == item[1]
             ancestors == item[2]
             children == Children(current)
             hits == {i \in 1..Len(children) : same_element(element, children[i])}
             popped == [st EXCEPT !.queue = rest,
                                  !.expanded = Append(st.expanded, current)]
         IN IF current \in broken
            THEN [popped EXCEPT !.pc = "raised", !.outcome = "oserror"]
            ELSE IF hits # {}
            THEN LET child == children[CHOOSE i \in hits : \A j \in hits : i <= j]
                     snaps == Snapshots(ancestors \o <<current, child>>)
                 IN IF snaps.ok
                    THEN [popped EXCEPT !.pc = "returned", !.outcome = "chain",
                                        !.chain = snaps.val]
                    ELSE [popped EXCEPT !.pc = "raised", !.outcome = "oserror"]
            ELSE [popped EXCEPT
                    !.queue = rest \o PushChildren(children, ancestors, current)]

RECURSIVE SlowRun(_, _)
SlowRun(element, st) ==
    IF st.pc = "loop" THEN SlowRun(element, SlowStep(element, st)) ELSE st

find_ancestors_slow(element) == SlowRun(element, SlowBegin(element))

\* ------------------------------------------------------ find_ancestors_fast
RECURSIVE Reverse(_)
Reverse(q) == IF q = <<>> THEN <<>> ELSE Reverse(Tail(q)) \o <<Head(q)>>

\* elements = [element]: the list starts with the handle itself
FastFirst(element) == Live(element)

\* the while loop; `built` is the list `elements` so far
RECURSIVE FastWalk(_, _)
FastWalk(element, built) ==
    IF element \in broken THEN [ok |-> FALSE, val |-> <<>>]
    ELSE LET parent == parentOf[element]
         IN IF parent = None THEN [ok |-> TRUE, val |-> built]
            ELSE LET snap == Element(parent)
                 IN IF snap.ok
                    THEN FastWalk(parent, Append(built, snap.val))
                    ELSE [ok |-> FALSE, val |-> <<>>]

\* return reversed(elements): a one-pass iterator over the reversed list
find_ancestors_fast(element) ==
    LET walk == FastWalk(element, <<FastFirst(element)>>)
    IN IF walk.ok
       THEN [outcome |-> "chain", iter |-> TRUE, chain |-> Reverse(walk.val)]
       ELSE [outcome |-> "oserror", iter |-> FALSE, chain |-> <<>>]

\* ---------------------------------------------------- the platforms checked
\* every forest on Nodes in which a node's parent has a smaller number
Forests == {p \in [Nodes -> 0..MaxNodes] : \A n \in Nodes : p[n] < n}

\* one window, and under it a chain of elements
ChainForest == [n \in Nodes |-> n - 1]

Roots == {n \in Nodes : parentOf[n] = None}

RECURSIVE RootOf(_)
RootOf(n) == IF parentOf[n] = None THEN n ELSE RootOf(parentOf[n])

PlainWindow(r) ==
    [root |-> r, hidden |-> FALSE, minimized |-> FALSE, app |-> {},
     appOK |-> TRUE, elementOK |-> TRUE]

WindowKinds(r) ==
    {PlainWindow(r),
     [PlainWindow(r) EXCEPT !.app = {"firefox"}],
     [PlainWindow(r) EXCEPT !.hidden = TRUE]}

\* the less usual windows: minimized, an app name containing two browser
\* names, an unreadable root element, an unreadable app name
WindowVariants(w) ==
    {[w EXCEPT !.minimized = TRUE],
     [w EXCEPT !.app = {"edge", "brave"}],
     [w EXCEPT !.elementOK = FALSE],
     [w EXCEPT !.appOK = FALSE]}

\* enumerations of at most MaxWindows windows, each over a root of its own
WindowLists ==
    UNION {{ws \in [1..k -> UNION {WindowKinds(r) : r \in Roots}] :
               \A i, j \in 1..k : i # j => ws[i].root # ws[j].root} :
           k \in 0..MaxWindows}

\* every property readable; a window handle per window, a name and a
\* rectangle per element
DefaultAttr ==
    [n \in Nodes |->
        [window_handle |-> RootOf(n), name |-> n, class_name |-> 1, rect |-> n,
         patterns |-> 1, automation_id |-> 1]]

\* one element with one unreadable property, or indistinguishable from another
AttrVariants ==
    {[DefaultAttr EXCEPT ![n][f] = ERR] :
        n \in Nodes, f \in {"window_handle", "name", "rect"}}
    \cup {[DefaultAttr EXCEPT ![nm[1]] = DefaultAttr[nm[2]]] :
            nm \in {x \in Nodes \X Nodes : x[1] # x[2]}}

\* a platform with at most one irregularity
Platform(ws) ==
    \/ /\ winList = ws /\ attr = DefaultAttr /\ broken = {}
    \/ /\ winList = ws /\ attr \in AttrVariants /\ broken = {}
    \/ /\ winList = ws /\ attr = DefaultAttr /\ broken \in {{n} : n \in Nodes}
    \/ /\ \E i \in 1..Len(ws) :
              winList \in {[ws EXCEPT ![i] = v] : v \in WindowVariants(ws[i])}
       /\ attr = DefaultAttr /\ broken = {}

\* one element whose rectangle, name and class name each may be unreadable
AttrCombos ==
    {[DefaultAttr EXCEPT ![n].rect = IF c[1] THEN ERR ELSE @,
                         ![n].name = IF c[2] THEN ERR ELSE @,
                         ![n].class_name = IF c[3] THEN ERR ELSE @] :
        n \in Nodes, c \in BOOLEAN \X BOOLEAN \X BOOLEAN}

FnIdle ==
    /\ fPc = "idle"
    /\ fArg = None
    /\ fRes = [ok |-> FALSE, val |-> NoEntry]

\* -------------------------------------------------- the module once loaded
\* a list object, and the one-pass iterator invocation i got from reversed()
ListOf(items) == [items |-> items, iter |-> FALSE, by |-> 0]
IterOf(items, i) == [items |-> items, iter |-> TRUE, by |-> i]

\* nothing was given to clip.set_text yet
NoClip == [by |-> 0, lines |-> <<>>]

\* lines 31-34 and 155-156, and nobody running
AppStart ==
    /\ elements_list = ListOf(<<>>)
    /\ mouse_pos = 0
    /\ is_searching_tree = FALSE
    /\ elements_list_lock = Free
    /\ canvases = <<>>
    /\ tags = FALSE
    /\ redraw_due = FALSE
    /\ iterPos = [i \in Invocations |-> 0]
    /\ pc = [i \in Invocations |-> "idle"]
    /\ mouse_pos_ = [i \in Invocations |-> 0]
    /\ base_element = [i \in Invocations |-> None]
    /\ elements = [i \in Invocations |-> ListOf(<<>>)]
    /\ resolution = [i \in Invocations |-> "none"]
    /\ raised = [i \in Invocations |-> "none"]
    /\ events = [i \in Invocations |-> <<>>]
    /\ screen_ix = [i \in Invocations |-> 1]
    /\ dPc = "idle"
    /\ d_elements_list = ListOf(<<>>)
    /\ d_mouse_pos = 0
    /\ d_is_searching = FALSE
    /\ d_colour = "unset"
    /\ d_text = 0
    /\ dRaised = "none"
    /\ closePc = "idle"
    /\ close_ix = 1
    /\ unlisted = <<>>
    /\ clipboard = NoClip

\* ------------------------------------------- find_ancestors_slow, stepwise
SlowState ==
    [pc |-> sPc, queue |-> queue, expanded |-> expanded, outcome |-> sOutcome,
     chain |-> sChain]

SlowSet(st) ==
    /\ sPc' = st.pc
    /\ queue' = st.queue
    /\ expanded' = st.expanded
    /\ sOutcome' = st.outcome
    /\ sChain' = st.chain

SlowInit ==
    /\ parentOf \in Forests
    /\ hasParent = FALSE
    /\ \E ws \in WindowLists : Platform(ws)
    /\ sTarget \in Nodes
    /\ sPc = "idle"
    /\ queue = <<>>
    /\ expanded = <<>>
    /\ sOutcome = "none"
    /\ sChain = <<>>
    /\ FnIdle
    /\ AppStart

\* the call, up to the while loop
SlowCall ==
    /\ sPc = "idle"
    /\ SlowSet(SlowBegin(sTarget))
    /\ UNCHANGED <<world, sTarget, fnVars, appVars>>

\* one iteration of the while loop
SlowIterate ==
    /\ sPc = "loop"
    /\ queue # <<>>
    /\ SlowSet(SlowStep(sTarget, SlowState))
    /\ UNCHANGED <<world, sTarget, fnVars, appVars>>

\* the while condition fails
SlowExhausted ==
    /\ sPc = "loop"
    /\ queue = <<>>
    /\ SlowSet(SlowStep(sTarget, SlowState))
    /\ UNCHANGED <<world, sTarget, fnVars, appVars>>

SlowNext == SlowCall \/ SlowIterate \/ SlowExhausted

vars == <<world, slowVars, fnVars, appVars>>

SlowSpec == SlowInit /\ [][SlowNext]_vars

\* ------------------------------------------------- single calls of functions
SlowUnused ==
    /\ sTarget = None
    /\ sPc = "idle"
    /\ queue = <<>>
    /\ expanded = <<>>
    /\ sOutcome = "none"
    /\ sChain = <<>>

FnInit ==
    /\ parentOf \in Forests
    /\ hasParent = TRUE
    /\ winList = <<>>
    /\ \/ attr \in AttrCombos /\ broken = {}
       \/ attr = DefaultAttr /\ broken \in {{n} : n \in Nodes}
    /\ SlowUnused
    /\ FnIdle
    /\ AppStart

CallElement ==
    /\ fPc = "idle"
    /\ \E e \in Nodes :
        /\ fArg' = e
        /\ fRes' = Element(e)
    /\ fPc' = "Element"
    /\ UNCHANGED <<world, slowVars, appVars>>

CallFast ==
    /\ fPc = "idle"
    /\ \E e \in Nodes :
        /\ fArg' = e
        /\ fRes' = find_ancestors_fast(e)
    /\ fPc' = "fast"
    /\ UNCHANGED <<world, slowVars, appVars>>

FnNext == CallElement \/ CallFast

FnSpec == FnInit /\ [][FnNext]_vars

\* --------------------------------------------------- same_element on its own
\* two handles; each read of the first yields 1 or raises, each read of the
\* second yields 1, yields 2 or raises
SameReads ==
    {[n \in Nodes |->
        IF n = 1 THEN [f \in DOMAIN DefaultAttr[1] |-> ra[f]]
        ELSE IF n = 2 THEN [f \in DOMAIN DefaultAttr[2] |-> rb[f]]
        ELSE DefaultAttr[n]] :
     ra \in [DOMAIN DefaultAttr[1] -> {1, ERR}],
     rb \in [DOMAIN DefaultAttr[2] -> {1, 2, ERR}]}

SameInit ==
    /\ parentOf = ChainForest
    /\ hasParent = FALSE
    /\ winList = <<>>
    /\ attr \in SameReads
    /\ broken = {}
    /\ SlowUnused
    /\ FnIdle
    /\ AppStart

CallSame ==
    /\ fPc = "idle"
    /\ \E a, b \in 1..2 :
        /\ fArg' = <<a, b>>
        /\ fRes' = [ok |-> TRUE, val |-> same_element(a, b)]
    /\ fPc' = "same"
    /\ UNCHANGED <<world, slowVars, appVars>>

SameNext == CallSame

SameSpec == SameInit /\ [][SameNext]_vars

\* ------------------------------------------------ visualiser_gather_at_point
\* ui.element_at(*mouse_pos_)
element_at(p) == IF p = 0 THEN None ELSE p

Did(i, e) == \E k \in 1..Len(events[i]) : events[i][k] = e

\* the index of the first e among the events of i, 0 when there is none
FirstAt(i, e) ==
    IF Did(i, e)
    THEN CHOOSE k \in 1..Len(events[i]) :
            events[i][k] = e /\ \A j \in 1..(k - 1) : events[i][j] # e
    ELSE 0

SkipsProvisional(base) == "final_lock"

\* where the call goes once create_canvases is over: lines 293-296 and 319
AfterElementAt(base) == IF base # None THEN "prov_lock" ELSE "final_lock"

\* the flag written by the publish of lines 299-303, and by that of 321-324
ProvisionalFlag == TRUE

FinalFlagLeftSet == TRUE

FinalFlag == FALSE

NotFoundClears(provisional) == [items |-> <<>>, iter |-> FALSE, by |-> 0]

\* `except ElementNotFoundError: pass`: `elements` keeps the provisional list
NotFoundElements(provisional) == provisional

\* the call returns or raises: its locals are gone
GatherReturn(i) ==
    /\ pc' = [pc EXCEPT ![i] = "done"]
    /\ mouse_pos_' = [mouse_pos_ EXCEPT ![i] = 0]
    /\ base_element' = [base_element EXCEPT ![i] = None]
    /\ elements' = [elements EXCEPT ![i] = ListOf(<<>>)]

\* line 290, and create_canvases up to `if not canvases`
GatherStart(i) ==
    /\ pc[i] = "idle"
    /\ \E p \in Points : mouse_pos_' = [mouse_pos_ EXCEPT ![i] = p]
    /\ pc' = [pc EXCEPT ![i] = IF canvases = <<>> THEN "create_loop" ELSE "create_tags"]
    /\ screen_ix' = [screen_ix EXCEPT ![i] = 1]
    /\ UNCHANGED <<base_element, elements, resolution, raised, events>>
    /\ UNCHANGED <<shared, elements_list_lock, overlay, iterPos, drawVars>>
    /\ UNCHANGED <<world, slowVars, fnVars, hostVars>>

\* lines 162-172: one screen of the loop
CreateCanvas(i) ==
    /\ pc[i] = "create_loop"
    /\ canvases' = Append(canvases, [screen |-> screen_ix[i], registered |-> 1])
    /\ screen_ix' = [screen_ix EXCEPT ![i] = @ + 1]
    /\ pc' = [pc EXCEPT ![i] = IF screen_ix[i] = MaxScreens THEN "create_tags"
                                                              ELSE "create_loop"]
    /\ UNCHANGED <<mouse_pos_, base_element, elements, resolution, raised, events>>
    /\ UNCHANGED <<shared, elements_list_lock, tags, redraw_due, iterPos, drawVars>>
    /\ UNCHANGED <<world, slowVars, fnVars, hostVars>>

\* line 173, then lines 293-296 and 318-319
CreateTags(i) ==
    /\ pc[i] = "create_tags"
    /\ tags' = TRUE
    /\ LET base == element_at(mouse_pos_[i])
           snap == Element(base)
       IN IF base = None
          THEN /\ base_element' = [base_element EXCEPT ![i] = base]
               /\ elements' = [elements EXCEPT ![i] = ListOf(<<>>)]
               /\ pc' = [pc EXCEPT ![i] = AfterElementAt(base)]
               /\ UNCHANGED <<raised, mouse_pos_>>
          ELSE IF snap.ok
          THEN /\ base_element' = [base_element EXCEPT ![i] = base]
               /\ elements' = [elements EXCEPT ![i] = ListOf(<<snap.val>>)]
               /\ pc' = [pc EXCEPT ![i] = AfterElementAt(base)]
               /\ UNCHANGED <<raised, mouse_pos_>>
          ELSE /\ raised' = [raised EXCEPT ![i] = "OSError"]
               /\ GatherReturn(i)
    /\ UNCHANGED <<resolution, events, screen_ix>>
    /\ UNCHANGED <<shared, elements_list_lock, canvases, redraw_due, iterPos, drawVars>>
    /\ UNCHANGED <<world, slowVars, fnVars, hostVars>>

\* lines 299-303: the lock taken and the three globals written
ProvisionalPublish(i) ==
    /\ pc[i] = "prov_lock"
    /\ elements_list_lock = Free
    /\ elements_list_lock' = i
    /\ elements_list' = elements[i]
    /\ mouse_pos' = mouse_pos_[i]
    /\ is_searching_tree' = ProvisionalFlag
    /\ events' = [events EXCEPT ![i] = Append(@, "provisional")]
    /\ pc' = [pc EXCEPT ![i] = "prov_unlock"]
    /\ UNCHANGED <<mouse_pos_, base_element, elements, resolution, raised, screen_ix>>
    /\ UNCHANGED <<overlay, iterPos, drawVars>>
    /\ UNCHANGED <<world, slowVars, fnVars, hostVars>>

\* the lock kept by the invocation past its `with` block
StillHeldBy(i) == i

\* the holder of the lock once invocation i has left its `with` block
AfterWith(i) == Free

\* the end of a `with elements_list_lock:` block
Unlock(i) ==
    /\ pc[i] \in {"prov_unlock", "final_unlock"}
    /\ elements_list_lock' = AfterWith(i)
    /\ pc' = [pc EXCEPT ![i] = IF pc[i] = "prov_unlock" THEN "redraw1" ELSE "redraw2"]
    /\ UNCHANGED <<mouse_pos_, base_element, elements, resolution, raised, events,
                   screen_ix>>
    /\ UNCHANGED <<shared, overlay, iterPos, drawVars>>
    /\ UNCHANGED <<world, slowVars, fnVars, hostVars>>

\* redraw_canvases: every canvas is resumed and frozen again
redraw_canvases == redraw_due' = (redraw_due \/ canvases # <<>>)

\* line 304, and the choice of line 311
FirstRedraw(i) ==
    /\ pc[i] = "redraw1"
    /\ redraw_canvases
    /\ events' = [events EXCEPT ![i] = @ \o <<"redraw", "begin">>]
    /\ pc' = [pc EXCEPT ![i] = IF hasParent THEN "fast" ELSE "slow"]
    /\ UNCHANGED <<mouse_pos_, base_element, elements, resolution, raised, screen_ix>>
    /\ UNCHANGED <<shared, elements_list_lock, canvases, tags, iterPos, drawVars>>
    /\ UNCHANGED <<world, slowVars, fnVars, hostVars>>

\* line 312
ResolveFast(i) ==
    /\ pc[i] = "fast"
    /\ LET r == find_ancestors_fast(base_element[i])
       IN IF r.outcome = "chain"
          THEN /\ elements' = [elements EXCEPT ![i] = IterOf(r.chain, i)]
               /\ resolution' = [resolution EXCEPT ![i] = "chain"]
               /\ events' = [events EXCEPT ![i] = Append(@, "end")]
               /\ pc' = [pc EXCEPT ![i] = "final_lock"]
               /\ UNCHANGED <<raised, mouse_pos_, base_element>>
          ELSE /\ resolution' = [resolution EXCEPT ![i] = "oserror"]
               /\ raised' = [raised EXCEPT ![i] = "OSError"]
               /\ events' = [events EXCEPT ![i] = Append(@, "raise")]
               /\ GatherReturn(i)
    /\ iterPos' = [iterPos EXCEPT ![i] = 0]
    /\ UNCHANGED screen_ix
    /\ UNCHANGED <<shared, elements_list_lock, overlay, drawVars>>
    /\ UNCHANGED <<world, slowVars, fnVars, hostVars>>

\* lines 314-317
ResolveSlow(i) ==
    /\ pc[i] = "slow"
    /\ LET r == find_ancestors_slow(base_element[i])
       IN IF r.outcome = "oserror"
          THEN /\ resolution' = [resolution EXCEPT ![i] = "oserror"]
               /\ raised' = [raised EXCEPT ![i] = "OSError"]
               /\ events' = [events EXCEPT ![i] = Append(@, "raise")]
               /\ GatherReturn(i)
          ELSE /\ elements' = [elements EXCEPT ![i] =
                                  IF r.outcome = "chain" THEN ListOf(r.chain)
                                  ELSE NotFoundElements(@)]
               /\ resolution' = [resolution EXCEPT ![i] = r.outcome]
               /\ events' = [events EXCEPT ![i] = Append(@, "end")]
               /\ pc' = [pc EXCEPT ![i] = "final_lock"]
               /\ UNCHANGED <<raised, mouse_pos_, base_element>>
    /\ UNCHANGED screen_ix
    /\ UNCHANGED <<shared, elements_list_lock, overlay, iterPos, drawVars>>
    /\ UNCHANGED <<world, slowVars, fnVars, hostVars>>

\* lines 321-324: the lock taken and the three globals written
FinalPublish(i) ==
    /\ pc[i] = "final_lock"
    /\ elements_list_lock = Free
    /\ elements_list_lock' = i
    /\ elements_list' = elements[i]
    /\ mouse_pos' = mouse_pos_[i]
    /\ is_searching_tree' = FinalFlag
    /\ events' = [events EXCEPT ![i] = Append(@, "final")]
    /\ pc' = [pc EXCEPT ![i] = "final_unlock"]
    /\ UNCHANGED <<mouse_pos_, base_element, elements, resolution, raised, screen_ix>>
    /\ UNCHANGED <<overlay, iterPos, drawVars>>
    /\ UNCHANGED <<world, slowVars, fnVars, hostVars>>

\* line 325
FinalRedraw(i) ==
    /\ pc[i] = "redraw2"
    /\ redraw_canvases
    /\ events' = [events EXCEPT ![i] = Append(@, "redraw")]
    /\ GatherReturn(i)
    /\ UNCHANGED <<resolution, raised, screen_ix>>
    /\ UNCHANGED <<shared, elements_list_lock, canvases, tags, iterPos, drawVars>>
    /\ UNCHANGED <<world, slowVars, fnVars, hostVars>>

\* ------------------------------------------------------------------- draw
\* the items a reference still yields when iterated
Yields(ref) ==
    IF ref.iter THEN SubSeq(ref.items, iterPos[ref.by] + 1, Len(ref.items))
    ELSE ref.items

\* element.rect on an entry: a snapshot holds it, a live handle reads it
RectRaises(entry) == entry.kind = "live" /\ attr[entry.node].rect = ERR

\* the callback returns or raises: its locals are gone
DrawReturn ==
    /\ dPc' = "idle"
    /\ d_elements_list' = ListOf(<<>>)
    /\ d_mouse_pos' = 0
    /\ d_is_searching' = FALSE
    /\ d_colour' = "unset"
    /\ d_text' = 0

\* the host calls the callback of a resumed canvas
DrawStart ==
    /\ dPc = "idle"
    /\ redraw_due
    /\ \E k \in 1..Len(canvases) : canvases[k].registered > 0
    /\ redraw_due' = FALSE
    /\ dPc' = "lock"
    /\ dRaised' = "none"
    /\ UNCHANGED <<d_elements_list, d_mouse_pos, d_is_searching, d_colour, d_text>>
    /\ UNCHANGED <<shared, elements_list_lock, canvases, tags, iterPos, gatherVars>>
    /\ UNCHANGED <<world, slowVars, fnVars, hostVars>>

\* lines 58-61: the lock taken and the three globals read
DrawRead ==
    /\ dPc = "lock"
    /\ elements_list_lock = Free
    /\ elements_list_lock' = Renderer
    /\ d_elements_list' = elements_list
    /\ d_mouse_pos' = mouse_pos
    /\ d_is_searching' = is_searching_tree
    /\ dPc' = "unlock"
    /\ UNCHANGED <<d_colour, d_text, dRaised>>
    /\ UNCHANGED <<shared, overlay, iterPos, gatherVars>>
    /\ UNCHANGED <<world, slowVars, fnVars, hostVars>>

DrawUnlock ==
    /\ dPc = "unlock"
    /\ elements_list_lock' = Free
    /\ dPc' = "layout"
    /\ UNCHANGED <<d_elements_list, d_mouse_pos, d_is_searching, d_colour, d_text,
                   dRaised>>
    /\ UNCHANGED <<shared, overlay, iterPos, gatherVars>>
    /\ UNCHANGED <<world, slowVars, fnVars, hostVars>>

\* line 74: get_text_components(elements_list_, is_searching_tree_).  On an
\* iterator, enumerate() takes the first item and len() then raises TypeError,
\* unless the flag is set, and then the loop takes every item.
DrawLayout ==
    /\ dPc = "layout"
    /\ LET ref == d_elements_list
           left == Len(Yields(ref))
       IN IF ~ref.iter \/ left = 0
          THEN /\ d_text' = left
               /\ dPc' = "colour"
               /\ UNCHANGED <<iterPos, dRaised>>
               /\ UNCHANGED <<d_elements_list, d_mouse_pos, d_is_searching, d_colour>>
          ELSE IF d_is_searching
          THEN /\ d_text' = left
               /\ iterPos' = [iterPos EXCEPT ![ref.by] = Len(ref.items)]
               /\ dPc' = "colour"
               /\ UNCHANGED dRaised
               /\ UNCHANGED <<d_elements_list, d_mouse_pos, d_is_searching, d_colour>>
          ELSE /\ iterPos' = [iterPos EXCEPT ![ref.by] = @ + 1]
               /\ dRaised' = "TypeError"
               /\ DrawReturn
    /\ UNCHANGED <<shared, elements_list_lock, overlay, gatherVars>>
    /\ UNCHANGED <<world, slowVars, fnVars, hostVars>>

\* line 104: the colours are chosen on the global, not on is_searching_tree_
DrawColour ==
    /\ dPc = "colour"
    /\ d_colour' = IF is_searching_tree THEN "searching" ELSE "idle"
    /\ dPc' = "boxes"
    /\ UNCHANGED <<d_elements_list, d_mouse_pos, d_is_searching, d_text, dRaised>>
    /\ UNCHANGED <<shared, elements_list_lock, overlay, iterPos, gatherVars>>
    /\ UNCHANGED <<world, slowVars, fnVars, hostVars>>

\* lines 117-149: the loop over elements_list_ reads element.rect
DrawBoxes ==
    /\ dPc = "boxes"
    /\ LET ref == d_elements_list
           seen == Yields(ref)
       IN /\ iterPos' = IF ref.iter THEN [iterPos EXCEPT ![ref.by] = Len(ref.items)]
                        ELSE iterPos
          /\ dRaised' = IF \E k \in 1..Len(seen) : RectRaises(seen[k])
                        THEN "OSError" ELSE "none"
    /\ DrawReturn
    /\ UNCHANGED <<shared, elements_list_lock, overlay, gatherVars>>
    /\ UNCHANGED <<world, slowVars, fnVars, hostVars>>

\* ------------------------------------------------------- the whole program
Init ==
    /\ parentOf = ChainForest
    /\ hasParent \in BOOLEAN
    /\ \/ /\ winList = <<PlainWindow(1)>>
          /\ attr = DefaultAttr
          /\ broken \in {{}, {2}}
       \/ /\ winList = <<PlainWindow(1)>>
          /\ attr = [DefaultAttr EXCEPT ![2].rect = ERR]
          /\ broken = {}
       \/ /\ winList = <<[PlainWindow(1) EXCEPT !.appOK = FALSE]>>
          /\ attr = DefaultAttr
          /\ broken = {}
    /\ SlowUnused
    /\ FnIdle
    /\ AppStart

Gather(i) ==
    \/ GatherStart(i)
    \/ CreateCanvas(i)
    \/ CreateTags(i)
    \/ ProvisionalPublish(i)
    \/ Unlock(i)
    \/ FirstRedraw(i)
    \/ ResolveFast(i)
    \/ ResolveSlow(i)
    \/ FinalPublish(i)
    \/ FinalRedraw(i)

Draw == DrawStart \/ DrawRead \/ DrawUnlock \/ DrawLayout \/ DrawColour \/ DrawBoxes

Next == (\E i \in Invocations : Gather(i)) \/ Draw

Spec == Init /\ [][Next]_vars

\* ------------------------------------------------------ get_text_components
\* str(element): a snapshot prints its label and its rectangle, a live handle
\* prints as the handle
Str(entry) ==
    [kind |-> entry.kind, text |-> entry.text, rect |-> entry.rect,
     handle |-> IF entry.kind = "live" THEN entry.node ELSE None]

\* lines 43-50, i counted from 0 and n = len(elements)
Prefix(i, n) ==
    IF n = 1 THEN "--"
    ELSE IF i = n - 1 THEN "L--"
    ELSE IF i > 0 THEN "L+-"
    ELSE "+-"

\* " " * (i - 1): a negative count gives no space
Indent(i) == IF i >= 1 THEN i - 1 ELSE 0

\* lines 40-51: one component
Component(i, n, entry, is_searching_tree_) ==
    IF is_searching_tree_
    THEN [indent |-> 0, prefix |-> "Finding ancestors for element: ",
          str |-> Str(entry)]
    ELSE [indent |-> Indent(i), prefix |-> Prefix(i, n), str |-> Str(entry)]

\* get_text_components on a reference: on a list, one component per entry;
\* on a reversed() iterator, enumerate() takes the first item left and len()
\* raises TypeError, unless the flag is set or nothing is left.  `taken` is
\* the number of items the call took from the iterator.
get_text_components(ref, is_searching_tree_) ==
    LET left == Yields(ref)
    IN IF ~ref.iter
       THEN [raised |-> FALSE, taken |-> 0,
             val |-> [k \in 1..Len(ref.items) |->
                        Component(k - 1, Len(ref.items), ref.items[k],
                                  is_searching_tree_)]]
       ELSE IF left = <<>>
       THEN [raised |-> FALSE, taken |-> 0, val |-> <<>>]
       ELSE IF is_searching_tree_
       THEN [raised |-> FALSE, taken |-> Len(left),
             val |-> [k \in 1..Len(left) |-> Component(k - 1, 0, left[k], TRUE)]]
       ELSE [raised |-> TRUE, taken |-> 1, val |-> <<>>]

\* ------------------------------------------ visualiser_gather_at_point_and_copy
\* the action returns or raises: its local is gone
CopyReturn(i) ==
    /\ pc' = [pc EXCEPT ![i] = "copied"]
    /\ elements' = [elements EXCEPT ![i] = ListOf(<<>>)]

\* lines 330-332: the gather returned; the lock taken, elements_list read
CopyRead(i) ==
    /\ pc[i] = "done"
    /\ raised[i] = "none"
    /\ elements_list_lock = Free
    /\ elements_list_lock' = i
    /\ elements' = [elements EXCEPT ![i] = elements_list]
    /\ pc' = [pc EXCEPT ![i] = "copy_unlock"]
    /\ UNCHANGED <<mouse_pos_, base_element, resolution, raised, events, screen_ix>>
    /\ UNCHANGED <<shared, overlay, iterPos, drawVars, hostVars>>
    /\ UNCHANGED <<world, slowVars, fnVars>>

CopyUnlock(i) ==
    /\ pc[i] = "copy_unlock"
    /\ elements_list_lock' = Free
    /\ pc' = [pc EXCEPT ![i] = "copy_text"]
    /\ UNCHANGED <<mouse_pos_, base_element, elements, resolution, raised, events,
                   screen_ix>>
    /\ UNCHANGED <<shared, overlay, iterPos, drawVars, hostVars>>
    /\ UNCHANGED <<world, slowVars, fnVars>>

\* line 333: clip.set_text("\n".join(get_text_components(elements)))
CopyText(i) ==
    /\ pc[i] = "copy_text"
    /\ LET r == get_text_components(elements[i], FALSE)
           by == elements[i].by
       IN /\ iterPos' = IF r.taken > 0 THEN [iterPos EXCEPT ![by] = @ + r.taken]
                        ELSE iterPos
          /\ IF r.raised
             THEN /\ raised' = [raised EXCEPT ![i] = "TypeError"]
                  /\ CopyReturn(i)
                  /\ UNCHANGED <<clipboard, events>>
             ELSE /\ clipboard' = [by |-> i, lines |-> r.val]
                  /\ events' = [events EXCEPT ![i] = Append(@, "clip")]
                  /\ pc' = [pc EXCEPT ![i] = "copy_notify"]
                  /\ UNCHANGED <<raised, elements>>
    /\ UNCHANGED <<mouse_pos_, base_element, resolution, screen_ix>>
    /\ UNCHANGED <<shared, elements_list_lock, overlay, drawVars>>
    /\ UNCHANGED <<closePc, close_ix, unlisted>>
    /\ UNCHANGED <<world, slowVars, fnVars>>

\* lines 334-336: app.notify
CopyNotify(i) ==
    /\ pc[i] = "copy_notify"
    /\ events' = [events EXCEPT ![i] = Append(@, "notify")]
    /\ CopyReturn(i)
    /\ UNCHANGED <<mouse_pos_, base_element, resolution, raised, screen_ix>>
    /\ UNCHANGED <<shared, elements_list_lock, overlay, iterPos, drawVars, hostVars>>
    /\ UNCHANGED <<world, slowVars, fnVars>>

Copy(i) == CopyRead(i) \/ CopyUnlock(i) \/ CopyText(i) \/ CopyNotify(i)

\* readable elements only, either strategy
CopyInit ==
    /\ parentOf = ChainForest
    /\ hasParent \in BOOLEAN
    /\ winList = <<PlainWindow(1)>>
    /\ attr = DefaultAttr
    /\ broken = {}
    /\ SlowUnused
    /\ FnIdle
    /\ AppStart

CopyNext == (\E i \in Invocations : Gather(i) \/ Copy(i)) \/ Draw

CopySpec == CopyInit /\ [][CopyNext]_vars

\* ------------------------------------------------------- visualiser_close
\* the tags left as create_canvases set them
TagsLeftSet == TRUE

\* line 177: visualiser_active_context.tags = []
ClearedTags == FALSE

\* c.unregister("draw", draw); c.close()
Unregistered(c) == [c EXCEPT !.registered = @ - 1]

\* the canvases of a list that are still open
RECURSIVE OpenOf(_)
OpenOf(cs) ==
    IF cs = <<>> THEN <<>>
    ELSE (IF Head(cs).registered > 0 THEN <<Head(cs)>> ELSE <<>>) \o OpenOf(Tail(cs))

\* line 177
CloseTags ==
    /\ closePc = "idle"
    /\ tags' = ClearedTags
    /\ close_ix' = 1
    /\ closePc' = "loop"
    /\ UNCHANGED <<canvases, redraw_due, unlisted, clipboard>>
    /\ UNCHANGED <<shared, elements_list_lock, iterPos, gatherVars, drawVars>>
    /\ UNCHANGED <<world, slowVars, fnVars>>

\* lines 178-180: the list iterator yields the canvas at its index
CloseCanvas ==
    /\ closePc = "loop"
    /\ close_ix <= Len(canvases)
    /\ canvases' = [canvases EXCEPT ![close_ix] = Unregistered(@)]
    /\ close_ix' = close_ix + 1
    /\ UNCHANGED <<closePc, tags, redraw_due, unlisted, clipboard>>
    /\ UNCHANGED <<shared, elements_list_lock, iterPos, gatherVars, drawVars>>
    /\ UNCHANGED <<world, slowVars, fnVars>>

\* line 178: the list iterator is exhausted
CloseLoopEnd ==
    /\ closePc = "loop"
    /\ close_ix > Len(canvases)
    /\ closePc' = "clear"
    /\ UNCHANGED <<close_ix, unlisted, clipboard, overlay>>
    /\ UNCHANGED <<shared, elements_list_lock, iterPos, gatherVars, drawVars>>
    /\ UNCHANGED <<world, slowVars, fnVars>>

\* line 181: canvases.clear(); a canvas appended since the loop ended leaves
\* the list open and registered
CloseClear ==
    /\ closePc = "clear"
    /\ unlisted' = unlisted \o OpenOf(canvases)
    /\ canvases' = <<>>
    /\ close_ix' = 1
    /\ closePc' = "idle"
    /\ UNCHANGED <<tags, redraw_due, clipboard>>
    /\ UNCHANGED <<shared, elements_list_lock, iterPos, gatherVars, drawVars>>
    /\ UNCHANGED <<world, slowVars, fnVars>>

visualiser_close == CloseTags \/ CloseCanvas \/ CloseLoopEnd \/ CloseClear

\* the actions called from any thread: calls overlap
OverlayNext == (\E i \in Invocations : Gather(i)) \/ visualiser_close

OverlaySpec == Init /\ [][OverlayNext]_vars

\* the host dispatching one command at a time: no action is called while
\* another one runs
NoOtherGather(i) == \A j \in Invocations \ {i} : pc[j] \in {"idle", "done"}

SerialNext ==
    \/ \E i \in Invocations : closePc = "idle" /\ NoOtherGather(i) /\ Gather(i)
    \/ NoOtherGather(0) /\ visualiser_close

SerialSpec == Init /\ [][SerialNext]_vars

\* ------------------------------------------------- claims on the publishes
\* invocation i has just made its final publish and still holds the lock
JustPublishedFinal(i) == pc[i] = "final_unlock" /\ elements_list_lock = i

SlowNotFound(i) == ~hasParent /\ resolution[i] = "notfound"

\* C1, as claimed: when the slow search signals element-not-found, the final
\* publish writes an empty chain with the flag not searching.
C1_NotFoundPublishesEmpty ==
    \A i \in Invocations :
        (JustPublishedFinal(i) /\ SlowNotFound(i))
            => (elements_list.items = <<>> /\ ~is_searching_tree)

\* C1, amended: when the slow search signals element-not-found, the final
\* publish writes the one-entry provisional chain again, the snapshot of the
\* element under the pointer, with the flag not searching.
C1_NotFoundPublishesProvisional ==
    \A i \in Invocations :
        (JustPublishedFinal(i) /\ SlowNotFound(i))
            => /\ elements_list = ListOf(<<Element(base_element[i]).val>>)
               /\ mouse_pos = mouse_pos_[i]
               /\ ~is_searching_tree

C1_Witness == \E i \in Invocations : JustPublishedFinal(i) /\ SlowNotFound(i)

\* C2: one publish per draw.  The flag the callback chooses its colours on is
\* the flag it read under the lock together with the chain and the point.
C2_ColourFromLockedRead ==
    dPc = "boxes" => d_colour = (IF d_is_searching THEN "searching" ELSE "idle")

\* C3: searching means at most one entry.  In every state, whatever the
\* interleaving of the invocations, a set flag comes with a chain of at most
\* one entry.
C3_SearchingChainShort == is_searching_tree => Len(elements_list.items) <= 1

\* the flag is set by one invocation after another one published a longer chain
C3_Witness ==
    /\ is_searching_tree
    /\ Len(elements_list.items) = 1
    /\ \E i, j \in Invocations :
        /\ i # j
        /\ pc[i] \in {"prov_unlock", "redraw1", "fast", "slow"}
        /\ Did(j, "final")
        /\ Did(j, "provisional")
        /\ resolution[j] = "chain"

InResolution(i) == pc[i] \in {"fast", "slow"}

\* C4: provisional before final.  An invocation inside its search has made
\* its provisional publish and then requested a redraw, and has not made its
\* final publish; a final publish comes after the search ended, and, when an
\* element was found under the pointer, after the provisional publish.
C4_ProvisionalBeforeFinal ==
    \A i \in Invocations :
        /\ (InResolution(i) \/ Did(i, "begin"))
              => /\ 0 < FirstAt(i, "provisional")
                 /\ FirstAt(i, "provisional") < FirstAt(i, "redraw")
                 /\ FirstAt(i, "redraw") < FirstAt(i, "begin")
        /\ InResolution(i) => ~Did(i, "final")
        /\ (Did(i, "final") /\ Did(i, "begin"))
              => /\ FirstAt(i, "begin") < FirstAt(i, "end")
                 /\ FirstAt(i, "end") < FirstAt(i, "final")
        /\ (Did(i, "final") /\ base_element[i] # None)
              => /\ 0 < FirstAt(i, "provisional")
                 /\ FirstAt(i, "provisional") < FirstAt(i, "final")

C4_Witness ==
    \E i \in Invocations :
        /\ JustPublishedFinal(i)
        /\ base_element[i] # None
        /\ resolution[i] = "chain"
        /\ Len(elements_list.items) >= 2

\* C5: the final publish always comes.  An invocation that made its
\* provisional publish ends only after its final publish and a redraw, with
\* no exception.
C5_FinalPublishAlwaysComes ==
    \A i \in Invocations :
        (pc[i] = "done" /\ Did(i, "provisional"))
            => /\ Did(i, "final")
               /\ events[i][Len(events[i])] = "redraw"
               /\ raised[i] = "none"

\* C9: snapshots only.  Every entry of the chain in the shared result is an
\* Element snapshot, never a live handle.
C9_OnlySnapshotsPublished ==
    \A k \in 1..Len(elements_list.items) : elements_list.items[k].kind = "snap"

\* what does hold: only the last entry of a fast chain is a live handle
OnlyFastTargetIsLive ==
    \A k \in 1..Len(elements_list.items) :
        elements_list.items[k].kind # "snap"
            => (hasParent /\ elements_list.iter /\ k = Len(elements_list.items))

\* ------------------------------------------- claims on Element and the fast walk
RECURSIVE Ancestor(_, _)
Ancestor(n, k) == IF k = 0 THEN n ELSE Ancestor(parentOf[n], k - 1)

\* every parent read from the target up to its root yields
ParentChainReadable(e) == \A k \in 0..Depth(e) : Ancestor(e, k) \notin broken

\* the entries are, outermost first, the root down to the target
FastChainShape(e, chain) ==
    /\ Len(chain) = Depth(e) + 1
    /\ \A i \in 0..Depth(e) : chain[i + 1].node = Ancestor(e, Depth(e) - i)

\* C8: the fast chain.  For a target with d ancestors whose parent reads yield,
\* find_ancestors_fast produces d+1 entries, outermost ancestor first and
\* target last, entry i being the ancestor d-i steps above the target.
C8_FastChainOfDepth ==
    (fPc = "fast" /\ ParentChainReadable(fArg))
        => (fRes.outcome = "chain" /\ FastChainShape(fArg, fRes.chain))

\* what does hold: a chain that find_ancestors_fast returns has that shape
FastReturnedChainShape ==
    (fPc = "fast" /\ fRes.outcome = "chain") => FastChainShape(fArg, fRes.chain)

\* C10: Element(h) never raises.  Whatever reads on h fail, the constructor
\* yields a snapshot, and when the name or the class name is unreadable its
\* label is the fallback string of the handle.
C10_ElementNeverRaises ==
    fPc = "Element" =>
        /\ fRes.ok
        /\ fRes.val.kind = "snap"
        /\ (attr[fArg].name = ERR \/ attr[fArg].class_name = ERR)
              => fRes.val.text = [fmt |-> "str", a |-> fArg, b |-> 0]

\* what does hold: with a readable rectangle the constructor yields a snapshot
ElementWithReadableRect ==
    (fPc = "Element" /\ attr[fArg].rect # ERR) =>
        /\ fRes.ok
        /\ fRes.val.kind = "snap"
        /\ (attr[fArg].name = ERR \/ attr[fArg].class_name = ERR)
              => fRes.val.text = [fmt |-> "str", a |-> fArg, b |-> 0]

\* ------------------------------------------------- claims on the slow search
BrowserMatched(w) == {b \in BrowserNames : b \in w.app} # {}

\* the windows whose root the seeding loop puts on the queue
SeededWindows ==
    {winList[i] : i \in {k \in 1..Len(winList) :
        Visible(winList[k]) /\ SeedIncluded(winList[k], GuardedHandle(sTarget))}}

SeededNodes == UNION {Subtree(w.root) : w \in SeededWindows}

\* C6: non-browser seeds first.  Whenever the root of a browser-matched seed
\* has been popped, the root and the whole subtree of every non-browser-matched
\* seed was popped before it.
C6_NonBrowserSeedsFirst ==
    \A i \in 1..Len(expanded) :
        \A wb \in {w \in SeededWindows : BrowserMatched(w)} :
            \A wn \in {w \in SeededWindows : ~BrowserMatched(w)} :
                expanded[i] = wb.root =>
                    \A n \in Subtree(wn.root) :
                        \E j \in 1..(i - 1) : expanded[j] = n

\* the target is same_element to no node below or at a seeded root
TargetAbsent == \A n \in SeededNodes : ~same_element(sTarget, n)

\* no unguarded read of the search raises: the app names of the visible
\* windows and the children of the seeded nodes are readable
SlowReadsSucceed ==
    /\ broken \cap SeededNodes = {}
    /\ \A i \in 1..Len(winList) : Visible(winList[i]) => winList[i].appOK

\* the nodes the search may still pop: those at or below a queued node
RECURSIVE Remaining(_)
Remaining(q) ==
    IF q = <<>> THEN 0 ELSE Cardinality(Subtree(Head(q)[1])) + Remaining(Tail(q))

SlowMeasure == Remaining(queue) + (IF sPc = "loop" THEN 1 ELSE 0)

SlowEnded == sPc \in {"returned", "raised"}

\* C7: termination on an absent target.  When the target is same_element to
\* no node of a seeded window, the search ends with an empty queue and
\* ElementNotFoundError.
C7_AbsentTargetNotFound ==
    (SlowEnded /\ TargetAbsent)
        => (sPc = "raised" /\ sOutcome = "notfound" /\ queue = <<>>)

\* what does hold: every iteration of the while loop lowers the number of
\* nodes that may still be popped, so the loop ends; on an absent target the
\* search never returns a chain, and over a forest whose reads succeed it ends
\* with an empty queue and ElementNotFoundError
AbsentTargetOnReadableForest ==
    /\ [][sPc = "loop" => SlowMeasure' < SlowMeasure]_vars
    /\ [](TargetAbsent => sOutcome # "chain")
    /\ [](SlowEnded /\ TargetAbsent /\ SlowReadsSucceed
            => sPc = "raised" /\ sOutcome = "notfound" /\ queue = <<>>)

\* ------------------------------------------------------ claims on same_element
Readable(a, b, f) == attr[a][f] # ERR /\ attr[b][f] # ERR

\* the window handles as the comparison sees them: an unreadable one is none
HandlesEqual(a, b) ==
    \/ attr[a].window_handle = ERR /\ attr[b].window_handle = ERR
    \/ /\ Readable(a, b, "window_handle")
       /\ attr[a].window_handle = attr[b].window_handle

OtherFields == {"name", "class_name", "rect", "patterns", "automation_id"}

\* C11: same_element never raises, and answers true exactly when the window
\* handles are equal (an unreadable one counting as none, none equal to none)
\* and name, class name, rectangle, patterns and automation id are all
\* readable and pairwise equal.  So it answers true on identical values when
\* both window-handle reads fail, and false when any of the five reads fails.
C11_SameElementExact ==
    fPc = "same" =>
        LET a == fArg[1]
            b == fArg[2]
        IN /\ fRes.ok
           /\ fRes.val =
                (/\ HandlesEqual(a, b)
                 /\ \A f \in OtherFields :
                        Readable(a, b, f) /\ attr[a][f] = attr[b][f])
           /\ (\E f \in OtherFields : ~Readable(a, b, f)) => ~fRes.val

\* both window-handle reads fail, the five other fields agree: the answer is true
C11_Witness ==
    /\ fPc = "same"
    /\ fArg = <<1, 2>>
    /\ attr[1].window_handle = ERR
    /\ attr[2].window_handle = ERR
    /\ fRes.val

\* ------------------------------------------------------ claims on the overlay
\* the surfaces that exist: the open canvases, in the list or dropped from it
Surfaces == OpenOf(canvases) \o unlisted

\* no surface, no registered draw callback, the active marker cleared
Closed == canvases = <<>> /\ Surfaces = <<>> /\ ~tags

\* C12: after close(), from any state the serially dispatched actions reach,
\* one with no surface ever created included, there is no drawing surface, no
\* draw callback registered and the active marker is cleared; a close() applied
\* to that state runs to its end and leaves it as it is.
C12_CloseLeavesNothing ==
    [][/\ CloseClear => Closed'
       /\ (Closed /\ visualiser_close)
            => (Closed' /\ UNCHANGED <<canvases, tags, unlisted>>)
       /\ closePc # "idle" => ENABLED visualiser_close]_vars

\* a close has ended after an invocation had created the canvases
C12_Witness ==
    /\ closePc = "idle"
    /\ Closed
    /\ \E i \in Invocations : pc[i] = "done" /\ Did(i, "final")

\* ----------------------------------------------------- claims on the copy
Count(i, e) == Cardinality({k \in 1..Len(events[i]) : events[i][k] = e})

\* the clipboard holds one line per entry of the chain, in the chain's order
OneLinePerEntry(lines, chain) ==
    /\ Len(lines) = Len(chain)
    /\ \A k \in 1..Len(chain) : lines[k].str = Str(chain[k])

\* C13: every gather_at_point_and_copy whose gather returned, by either
\* strategy, ends without an exception, having written to the clipboard one
\* line per entry of the chain it read from the shared result, in the chain's
\* order, and having notified exactly once.
C13_CopyAlwaysCompletes ==
    \A i \in Invocations :
        /\ pc[i] = "copied"
              => /\ raised[i] = "none"
                 /\ Count(i, "clip") = 1
                 /\ Count(i, "notify") = 1
        /\ (pc[i] = "copy_notify" /\ clipboard.by = i)
              => OneLinePerEntry(clipboard.lines, elements[i].items)

\* what does hold: it is so when the chain read is a list, as the slow
\* strategy and an empty pointer publish it
CopyOfListCompletes ==
    \A i \in Invocations :
        /\ (pc[i] = "copied" /\ ~hasParent)
              => /\ raised[i] = "none"
                 /\ Count(i, "clip") = 1
                 /\ Count(i, "notify") = 1
        /\ (pc[i] = "copy_notify" /\ clipboard.by = i /\ ~elements[i].iter)
              => OneLinePerEntry(clipboard.lines, elements[i].items)

\* ------------------------------------------- claims on the slow search's chain
\* the tree path from the root above n down to n
RECURSIVE PathTo(_)
PathTo(n) == IF parentOf[n] = None THEN <<n>> ELSE Append(PathTo(parentOf[n]), n)

ChainNodes == [k \in 1..Len(sChain) |-> sChain[k].node]

Matched == ChainNodes[Len(ChainNodes)]

\* C14: the slow chain is the tree path.  A chain that find_ancestors_slow
\* returns is the path from the seeded window root down to the matched node:
\* root first, matched node last, each entry the parent of the next, no node
\* twice, so k+1 entries for a match at depth k.
C14_SlowChainIsTreePath ==
    sOutcome = "chain"
        => /\ ChainNodes = PathTo(Matched)
           /\ Len(sChain) = Depth(Matched) + 1

\* a sequence without its immediate repetitions
RECURSIVE Collapse(_)
Collapse(q) ==
    IF Len(q) <= 1 THEN q
    ELSE IF q[1] = q[2] THEN Collapse(Tail(q))
    ELSE <<q[1]>> \o Collapse(Tail(q))

\* what does hold: the chain is the tree path with every node strictly between
\* the root and the matched node written twice, so it is the path itself only
\* for a match at depth 1
SlowChainRepeatsInner ==
    sOutcome = "chain"
        => /\ Collapse(ChainNodes) = PathTo(Matched)
           /\ Len(sChain) = IF Depth(Matched) <= 1 THEN Depth(Matched) + 1
                             ELSE 2 * Depth(Matched)

\* ----------------------------------------------- claims on the slow search's seeds
\* the seeding loop has run and the while loop has not yet popped anything
JustSeeded == sPc = "loop" /\ expanded = <<>>

OnStack(n) == \E q \in 1..Len(queue) : queue[q][1] = n

\* C15: the seeds.  A window's root element is on the search stack when the
\* seeding loop ends if and only if the window is neither hidden nor
\* minimized, its root element is readable, and the target's window handle is
\* unreadable, or the root's window handle is the target's, or the root's
\* window-handle read fails.
C15_SeededExactlyWhen ==
    JustSeeded =>
        \A k \in 1..Len(winList) :
            LET w == winList[k]
            IN OnStack(w.root) <=>
                /\ ~w.hidden
                /\ ~w.minimized
                /\ w.elementOK
                /\ \/ attr[sTarget].window_handle = ERR
                   \/ attr[w.root].window_handle = attr[sTarget].window_handle
                   \/ attr[w.root].window_handle = ERR

\* a root is seeded for its unreadable window handle, the target's being readable
C15_Witness ==
    /\ JustSeeded
    /\ attr[sTarget].window_handle # ERR
    /\ \E k \in 1..Len(winList) :
        /\ attr[winList[k].root].window_handle = ERR
        /\ OnStack(winList[k].root)

\* ------------------------------------------------------- claims on the lock
\* C16: no lock during the search.  An invocation inside find_ancestors_fast
\* or find_ancestors_slow does not hold elements_list_lock; whoever holds the
\* lock is at the end of its `with` block and releases it by its own next
\* step, so a draw callback waiting for the lock waits for a release that is
\* enabled, never for a search to end.
C16_NoLockDuringSearch ==
    /\ \A i \in Invocations : InResolution(i) => elements_list_lock # i
    /\ \A i \in Invocations :
            elements_list_lock = i => pc[i] \in {"prov_unlock", "final_unlock"}
    /\ elements_list_lock = Renderer => dPc = "unlock"
    /\ (dPc = "lock" /\ elements_list_lock # Free)
            => \E i \in Invocations : ENABLED Unlock(i)

\* the draw callback has read the shared result while an invocation searches
C16_Witness ==
    /\ dPc = "unlock"
    /\ elements_list_lock = Renderer
    /\ \E i \in Invocations : InResolution(i)

\* -------------------------------------------- claims on overlapping overlay calls
SurfacesOn(scr) == {k \in 1..Len(Surfaces) : Surfaces[k].screen = scr}

\* C17: one surface per screen.  Whatever the interleaving of gather_at_point
\* and close calls, no screen has more than one drawing surface, and every
\* surface that exists is in the list of canvases with the draw callback
\* registered once.
C17_OneSurfacePerScreen ==
    /\ \A scr \in Screens : Cardinality(SurfacesOn(scr)) <= 1
    /\ \A k \in 1..Len(Surfaces) : Surfaces[k].registered = 1
    /\ unlisted = <<>>

\* what does hold: it is so when the calls are dispatched one at a time
\* (under SerialSpec)
OneSurfacePerScreenWhenSerial ==
    /\ \A scr \in Screens : Cardinality(SurfacesOn(scr)) <= 1
    /\ unlisted = <<>>
    /\ Len(canvases) <= MaxScreens

\* ------------------------------------------------------- claims on the flag
\* invocation i has made its provisional publish, has not made its final
\* publish and is still running
InFlight(i) == Did(i, "provisional") /\ ~Did(i, "final") /\ pc[i] # "done"

\* C18: the flag tells whether a search is in flight.  Under any interleaving
\* of the invocations, while some invocation is between its provisional and
\* its final publish the flag is set; so when the flag is clear, none is.
C18_FlagTellsSearchInFlight ==
    (\E i \in Invocations : InFlight(i)) => is_searching_tree

\* what does hold: the flag is set while an invocation is in that interval
\* and no other invocation has been called
FlagSetWhileAloneInFlight ==
    \A i \in Invocations :
        (InFlight(i) /\ \A j \in Invocations \ {i} : pc[j] = "idle")
            => is_searching_tree

\* ------------------------------------------- claims on what the slow search finds
\* every property read of the search yields
AllReadsSucceed ==
    /\ broken = {}
    /\ \A n \in Nodes : \A f \in DOMAIN attr[n] : attr[n][f] # ERR
    /\ \A k \in 1..Len(winList) : winList[k].appOK /\ winList[k].elementOK

SeededRoots == {w.root : w \in SeededWindows}

\* C19: a seeded target is found.  When every property read succeeds,
\* find_ancestors_slow returns a chain, and does not signal element-not-found,
\* for every target that is a node of a seeded window's tree, the window's
\* root element included.
C19_SeededTargetFound ==
    (SlowEnded /\ AllReadsSucceed /\ sTarget \in SeededNodes)
        => sOutcome = "chain"

\* what does hold: a target below a seeded root is found
SeededTargetBelowRootFound ==
    (SlowEnded /\ AllReadsSucceed /\ sTarget \in SeededNodes \ SeededRoots)
        => sOutcome = "chain"

\* ------------------------------------------------ claims on reading the chain
Publishes == \E i \in Invocations : ProvisionalPublish(i) \/ FinalPublish(i)

\* C20: reading leaves the chain as it is.  As long as no publish replaces
\* the shared chain, what a reader gets from it stays the same sequence of
\* entries, of the same length; the stored chain changes by a publish only.
C20_ReadsLeaveChainAlone ==
    [][/\ elements_list' = elements_list
            => Yields(elements_list)' = Yields(elements_list)
       /\ elements_list' # elements_list => Publishes]_vars

\* what does hold: it is so for a chain published as a list, and the stored
\* reference changes by a publish only
ListChainLeftAlone ==
    [][/\ (elements_list' = elements_list /\ ~elements_list.iter)
            => Yields(elements_list)' = Yields(elements_list)
       /\ elements_list' # elements_list => Publishes]_vars

====
